---- MODULE Spec2Model ----
(***************************************************************************)
(* Model of the land_battle_chess server: one match actor                  *)
(* (GameService::run / process_player_message in src/src/main.rs), the     *)
(* connection bridges that feed it (handle_socket) and the adjudicator     *)
(* (compare_piece in src/src/game_logic.rs).                               *)
(***************************************************************************)
EXTENDS Integers, Sequences, FiniteSets, TLC

VARIABLES
    state,       \* Player.state of players.0 / players.1
    piece,       \* Player.piece     : Option<PieceInfo>
    move_pos,    \* Player.move_pos  : Option<MovePos>
    cur_player,  \* GameService.cur_player
    conns,       \* the local `conns` of run : Option<PlayerConn> per player
    rx,          \* the actor's unbounded inbound queue
    actor,       \* "running", or "panicked" once the task has unwound
    socks,       \* one record per accepted websocket (bridge + sink)
    fwd,         \* game messages forwarded so far for each player
    sent,        \* the sink sends attempted by the latest step, in order
    last,        \* the command dequeued by the latest step, if it was the actor's
    nStart,      \* GameStart messages written to each player's sink so far
    winner,      \* the last non-zero game_winner put in a MoveResult, else 0
    user_map,    \* App.user_map : the User registered for a pubkey, if any
    game_map,    \* App.game_map : the Game registered for a game id, if any
    chans,       \* the actors spawned by join and who holds their channel
    resp,        \* the latest HTTP request and the response it got
    enq,         \* the command the latest step put on a channel, if any
    hist         \* the match so far: Roles written, the latest accepted
                 \* Move, the Whispers adjudicated since that Move

vars == <<state, piece, move_pos, cur_player, conns, rx, actor, socks, fwd,
          sent, last, nStart, winner, user_map, game_map, chans, resp, enq,
          hist>>

lobby_vars == <<user_map, game_map, chans, resp, enq>>

(***************************************************************************)
(* Bounds of the exploration.                                              *)
(***************************************************************************)
MaxConns == 2    \* websockets accepted over the life of the match
MaxMsgs == 3     \* game messages the bridges forward in total
MaxQueue == 1    \* commands waiting in the actor's queue
MaxGames == 2    \* matches the lobby creates
MaxBridges == 1  \* bridges the lobby hands a channel to

(***************************************************************************)
(* Option<T>: None is the empty sequence, Some(v) a one-element sequence.  *)
(***************************************************************************)
None == <<>>

Some(v) == <<v>>

is_some(o) == o # None

unwrap(o) == o[1]

\* Option::take leaves None behind
take(o) == None

(***************************************************************************)
(* Piece and AttackResult with their integer representation.               *)
(***************************************************************************)
Empty == 0
Flag == 1
Bomb == 2
Landmine == 3
Engineer == 4
Lieutenant == 5
Captain == 6
Major == 7
Colonel == 8
Brigadier == 9
MajorGeneral == 10
General == 11
FieldMarshal == 12
Unchanged == 15
Opponent == 16

Piece == (0..12) \cup {Unchanged, Opponent}

SimpleMove == 0
Win == 1
Draw == 2
Lose == 3

(***************************************************************************)
(* The adjudicator.                                                        *)
(***************************************************************************)
attack_result_landmine_first(a, t) ==
    IF t = Empty THEN SimpleMove
    ELSE IF t = Landmine THEN (IF a = Engineer THEN Win ELSE Lose)
    ELSE IF a = Bomb \/ t = Bomb THEN Draw
    ELSE IF a > t THEN Win
    ELSE IF a = t THEN Draw
    ELSE Lose

attack_result_of(a, t) ==
    IF t = Empty THEN SimpleMove
    ELSE IF a = Bomb \/ t = Bomb THEN Draw
    ELSE IF t = Landmine THEN (IF a = Engineer THEN Win ELSE Lose)
    ELSE IF a > t THEN Win
    ELSE IF a = t THEN Draw
    ELSE Lose

victim_of_lose_only(res, a) == IF res = Lose THEN a ELSE Empty

victim_of(res, a) == IF res \in {Draw, Lose} THEN a ELSE Empty

opp_victim_of(res, t) == IF res \in {Win, Draw} THEN t ELSE Empty

game_winner_defender_first(victim, opp_victim) ==
    IF opp_victim = Flag THEN 1
    ELSE IF victim = Flag THEN 2
    ELSE 0

game_winner_of(victim, opp_victim) ==
    IF victim = Flag THEN 2
    ELSE IF opp_victim = Flag THEN 1
    ELSE 0

compare_piece_swapped(attacker, target, mp) ==
    LET res == attack_result_of(attacker.piece, target.piece)
        victim == victim_of(res, attacker.piece)
        opp_victim == opp_victim_of(res, target.piece)
    IN  [x |-> mp.target_x, y |-> mp.target_y,
         target_x |-> mp.x, target_y |-> mp.y,
         attack_result |-> res,
         flag_x |-> IF victim = FieldMarshal THEN attacker.flag_x ELSE None,
         flag_y |-> IF victim = FieldMarshal THEN attacker.flag_y ELSE None,
         opp_flag_x |-> IF opp_victim = FieldMarshal
                        THEN target.flag_x ELSE None,
         opp_flag_y |-> IF opp_victim = FieldMarshal
                        THEN target.flag_y ELSE None,
         game_winner |-> game_winner_of(victim, opp_victim)]

compare_piece(attacker, target, mp) ==
    LET res == attack_result_of(attacker.piece, target.piece)
        victim == victim_of(res, attacker.piece)
        opp_victim == opp_victim_of(res, target.piece)
    IN  [x |-> mp.x, y |-> mp.y,
         target_x |-> mp.target_x, target_y |-> mp.target_y,
         attack_result |-> res,
         flag_x |-> IF victim = FieldMarshal THEN attacker.flag_x ELSE None,
         flag_y |-> IF victim = FieldMarshal THEN attacker.flag_y ELSE None,
         opp_flag_x |-> IF opp_victim = FieldMarshal
                        THEN target.flag_x ELSE None,
         opp_flag_y |-> IF opp_victim = FieldMarshal
                        THEN target.flag_y ELSE None,
         game_winner |-> game_winner_of(victim, opp_victim)]

(***************************************************************************)
(* Players of the match and the messages their clients send.               *)
(***************************************************************************)
player1 == "p1"
player2 == "p2"

Players == {player1, player2}

opponent(p) == IF p = player1 THEN player2 ELSE player1

flag_of(pc) == IF pc = FieldMarshal THEN Some(2) ELSE None

ReadyMsg == [type |-> "Ready"]

HelloMsg == [type |-> "Hello"]

MoveMsg(pc, c) ==
    [type |-> "Move", piece |-> pc, x |-> c[1], y |-> c[2],
     target_x |-> c[3], target_y |-> c[4],
     flag_x |-> flag_of(pc), flag_y |-> flag_of(pc)]

WhisperMsg(pc) ==
    [type |-> "Whisper", piece |-> pc, x |-> 0, y |-> 2,
     flag_x |-> flag_of(pc), flag_y |-> flag_of(pc)]

\* the messages the clients of the explored runs put on the wire
ClientMsgs ==
    {ReadyMsg, HelloMsg,
     MoveMsg(Flag, <<0, 1, 0, 2>>), MoveMsg(FieldMarshal, <<1, 3, 1, 4>>),
     WhisperMsg(Empty), WhisperMsg(FieldMarshal)}

(***************************************************************************)
(* Websockets.  socks[c] is the c-th accepted socket: the player it        *)
(* belongs to and whether its bridge task is still in its loop.  Whether a *)
(* write to a sink succeeds is the environment's choice at each write.     *)
(***************************************************************************)
ConnIds == 1..Len(socks)

QueuedConns == {rx[i].conn : i \in {j \in 1..Len(rx) : rx[j].type = "PlayerConnected"}}

\* the PlayerConn (sink and exit_signal sender) of socket c still exists
ConnAlive(c) == c \in QueuedConns \/ \E p \in Players : conns[p] = Some(c)

Forwarded == fwd[player1] + fwd[player2]

\* one attempted write to the sink of socket c, and whether it succeeded
Send(c, m, ok) == [conn |-> c, to |-> socks[c].pubkey, msg |-> m, ok |-> ok]

\* the keys, access codes and random ids of the explored lobby
Users == Players \cup {"p3"}

AccessCodes == {"a", "b"}

GameIds == {0, 1}

\* App::default(): both maps empty, nothing spawned, nothing answered
LobbyInit ==
    /\ user_map = [u \in Users |-> None]
    /\ game_map = [g \in GameIds |-> None]
    /\ chans = <<>>
    /\ resp = None
    /\ enq = None

Init ==
    /\ LobbyInit
    /\ state = [p \in Players |-> "Disconnected"]
    /\ piece = [p \in Players |-> None]
    /\ move_pos = [p \in Players |-> None]
    /\ cur_player = player1
    /\ conns = [p \in Players |-> None]
    /\ rx = <<>>
    /\ actor = "running"
    /\ socks = <<>>
    /\ fwd = [p \in Players |-> 0]
    /\ sent = <<>>
    /\ last = None
    /\ nStart = [p \in Players |-> 0]
    /\ winner = 0
    /\ hist = [roles |-> {}, move |-> None, whispers |-> 0]

match_vars == <<state, piece, move_pos, cur_player, conns, actor, nStart, winner,
                hist>>

(***************************************************************************)
(* Connection bridge (enter_game / handle_socket).                         *)
(***************************************************************************)
\* a participant opens a websocket and its bridge enqueues PlayerConnected.
\* Once the actor's receiver is gone the bridge bails out at once and the
\* match is not touched, so sockets opened after a panic are left out.
EnterGame(p) ==
    /\ actor = "running"
    /\ Len(socks) < MaxConns
    /\ Len(rx) < MaxQueue
    /\ socks' = Append(socks, [pubkey |-> p, bridge |-> "running"])
    /\ rx' = Append(rx, [type |-> "PlayerConnected", conn |-> Len(socks) + 1])
    /\ sent' = <<>>
    /\ last' = None
    /\ UNCHANGED <<fwd, match_vars, lobby_vars>>

\* a text frame that decodes to m arrives and is forwarded.  A send error
\* (receiver gone) is ignored and changes nothing, so it is left out.
BridgeRecv(c, m) ==
    /\ actor = "running"
    /\ socks[c].bridge = "running"
    /\ Forwarded < MaxMsgs
    /\ Len(rx) < MaxQueue
    /\ fwd' = [fwd EXCEPT ![socks[c].pubkey] = @ + 1]
    /\ UNCHANGED socks
    /\ rx' = Append(rx, [type |-> "GameMessage",
                         pubkey |-> socks[c].pubkey, msg |-> m])
    /\ sent' = <<>>
    /\ last' = None
    /\ UNCHANGED <<match_vars, lobby_vars>>

\* a read error or a frame that does not decode: run returns Err
BridgeReturn(c) ==
    /\ socks[c].bridge = "running"
    /\ socks' = [socks EXCEPT ![c].bridge = "returned"]
    /\ sent' = <<>>
    /\ last' = None
    /\ UNCHANGED <<rx, fwd, match_vars, lobby_vars>>

\* the exit_signal receiver yields (signalled, or its sender was dropped)
BridgeExit(c) ==
    /\ socks[c].bridge = "running"
    /\ ~ConnAlive(c)
    /\ socks' = [socks EXCEPT ![c].bridge = "returned"]
    /\ sent' = <<>>
    /\ last' = None
    /\ UNCHANGED <<rx, fwd, match_vars, lobby_vars>>

(***************************************************************************)
(* The match actor: GameService::run and process_player_message.           *)
(***************************************************************************)
NoConns == [p \in Players |-> None]

\* the task unwinds: its state, its receiver and the sinks it holds are gone
Panic ==
    /\ actor' = "panicked"
    /\ sent' = <<>>
    /\ UNCHANGED <<state, cur_player, nStart, winner, hist>>

\* a handler that returns without touching the match
Ignore ==
    /\ sent' = <<>>
    /\ UNCHANGED <<state, piece, move_pos, cur_player, actor, nStart, winner,
                   hist>>

after_send_fatal(ok) == IF ok THEN "running" ELSE "panicked"

\* the actor after a write to a sink: an error is logged and the loop goes on
after_send(ok) == "running"

already_connected(pk) == state[pk] # "Disconnected"

RoleMsg == [type |-> "Role", player1 |-> player1, player2 |-> player2]

RunPlayerConnected(ok) ==
    /\ actor = "running"
    /\ rx # <<>>
    /\ Head(rx).type = "PlayerConnected"
    /\ last' = Some(Head(rx))
    /\ LET c == Head(rx).conn
           pk == socks[c].pubkey
           role == Send(c, RoleMsg, ok)
       IN  IF pk \notin Players
           THEN \* not a player of this match: signal the bridge to exit
                IF socks[c].bridge = "running"
                THEN Ignore /\ UNCHANGED conns
                ELSE Panic /\ UNCHANGED <<piece, move_pos>>
           ELSE IF already_connected(pk)
           THEN Panic /\ UNCHANGED <<piece, move_pos>>
           ELSE IF ~role.ok
           THEN \* the Role could not be written: warn, drop conn, continue
                /\ sent' = <<role>>
                /\ actor' = after_send(role.ok)
                /\ UNCHANGED <<state, piece, move_pos, cur_player, conns,
                               nStart, winner, hist>>
           ELSE /\ sent' = <<role>>
                /\ state' = [state EXCEPT ![pk] = "Connected"]
                /\ conns' = [conns EXCEPT ![pk] = Some(c)]
                /\ hist' = [hist EXCEPT !.roles = @ \cup {pk}]
                /\ UNCHANGED <<piece, move_pos, cur_player, actor, nStart, winner>>
    /\ IF actor' = "panicked"
       THEN rx' = <<>> /\ conns' = NoConns
       ELSE rx' = Tail(rx)
    /\ UNCHANGED <<socks, fwd, lobby_vars>>

GameStartMsg == [type |-> "GameStart", turn |-> cur_player]

opp_ready_always(pubkey) == TRUE

\* opp.state == PlayerState::Ready, for the opponent of pubkey
opp_ready(pubkey) == state[opponent(pubkey)] = "Ready"

process_Ready(pubkey, player_tx, opp_tx, ok1, ok2) ==
    LET start == IF opp_ready(pubkey)
                 THEN <<Send(player_tx, GameStartMsg, ok1),
                        Send(opp_tx, GameStartMsg, ok2)>>
                 ELSE <<>>
    IN  /\ state' = [state EXCEPT ![pubkey] = "Ready"]
        /\ sent' = start
        /\ nStart' = [p \in Players |->
                        nStart[p] + Cardinality({i \in 1..Len(start) :
                                        start[i].to = p})]
        /\ UNCHANGED <<piece, move_pos, cur_player, actor, winner, hist>>

not_turn_never(pubkey) == FALSE

not_turn(pubkey) == cur_player # pubkey

has_piece_other(pubkey) == is_some(piece[opponent(pubkey)])

has_piece_never(pubkey) == FALSE

has_piece(pubkey) == is_some(piece[pubkey])

PiecePosMsg(mp) ==
    [type |-> "PiecePos", x |-> mp.x, y |-> mp.y,
     target_x |-> mp.target_x, target_y |-> mp.target_y]

stored_move_missing(mp) == None

\* the pending move kept beside the pending piece
stored_move(mp) == Some(mp)

process_Move(msg, pubkey, opp_tx, ok2) ==
    IF not_turn(pubkey) THEN Ignore /\ UNCHANGED <<piece, move_pos>>
    ELSE IF has_piece(pubkey) THEN Ignore /\ UNCHANGED <<piece, move_pos>>
    ELSE LET mp == [x |-> msg.x, y |-> msg.y,
                    target_x |-> msg.target_x, target_y |-> msg.target_y]
         IN  /\ piece' = [piece EXCEPT ![pubkey] =
                            Some([piece |-> msg.piece,
                                  flag_x |-> msg.flag_x, flag_y |-> msg.flag_y])]
             /\ move_pos' = [move_pos EXCEPT ![pubkey] = stored_move(mp)]
             /\ sent' = <<Send(opp_tx, PiecePosMsg(mp), ok2)>>
             /\ hist' = [hist EXCEPT
                           !.move = Some([pubkey |-> pubkey, msg |-> msg]),
                           !.whispers = 0]
             /\ actor' = after_send(ok2)
             /\ UNCHANGED <<state, cur_player, nStart, winner>>

unexpected_whisper_never(pubkey) == FALSE

unexpected_whisper(pubkey) == cur_player = pubkey

next_turn_stays(pubkey) == cur_player

next_turn(pubkey) == pubkey

MoveResultMsg(pm) == [type |-> "MoveResult", piece_move |-> pm]

process_Whisper(msg, pubkey, player_tx, opp_tx, ok1, ok2) ==
    IF unexpected_whisper(pubkey) THEN Ignore /\ UNCHANGED <<piece, move_pos>>
    ELSE LET opp == opponent(pubkey)
             target == [piece |-> msg.piece,
                        flag_x |-> msg.flag_x, flag_y |-> msg.flag_y]
         IN  IF ~is_some(piece[opp])
             THEN Panic /\ UNCHANGED <<piece, move_pos>>
             ELSE IF ~is_some(move_pos[opp])
             THEN /\ Panic
                  /\ piece' = [piece EXCEPT ![opp] = take(@)]
                  /\ UNCHANGED move_pos
             ELSE LET piece_move == compare_piece(unwrap(piece[opp]), target,
                                                  unwrap(move_pos[opp]))
                      res == MoveResultMsg(piece_move)
                  IN  /\ piece' = [piece EXCEPT ![opp] = take(@)]
                      /\ move_pos' = [move_pos EXCEPT ![opp] = take(@)]
                      /\ cur_player' = next_turn(pubkey)
                      /\ sent' = <<Send(player_tx, res, ok1), Send(opp_tx, res, ok2)>>
                      /\ winner' = IF piece_move.game_winner # 0
                                   THEN piece_move.game_winner ELSE winner
                      /\ hist' = [hist EXCEPT !.whispers = @ + 1]
                      /\ UNCHANGED <<state, actor, nStart>>

\* ok1, ok2: whether a write to player_tx, to opp_tx succeeds
process_player_message(msg, pubkey, player_tx, opp_tx, ok1, ok2) ==
    CASE msg.type = "Ready" -> process_Ready(pubkey, player_tx, opp_tx, ok1, ok2)
      [] msg.type = "Move" -> process_Move(msg, pubkey, opp_tx, ok2)
      [] msg.type = "Whisper" ->
            process_Whisper(msg, pubkey, player_tx, opp_tx, ok1, ok2)
      [] OTHER -> Ignore /\ UNCHANGED <<piece, move_pos>>

\* the sender's own sink and the opponent's sink, picked by the sender's key
tx_of(pubkey) == unwrap(conns[pubkey])

opp_tx_of_self(pubkey) == unwrap(conns[pubkey])

opp_tx_of(pubkey) == unwrap(conns[opponent(pubkey)])

RunGameMessage(ok1, ok2) ==
    /\ actor = "running"
    /\ rx # <<>>
    /\ Head(rx).type = "GameMessage"
    /\ last' = Some(Head(rx))
    /\ LET pubkey == Head(rx).pubkey
           msg == Head(rx).msg
       IN  IF is_some(conns[player1]) /\ is_some(conns[player2])
           THEN LET tx == tx_of(pubkey)
                    opp_tx == opp_tx_of(pubkey)
                IN  process_player_message(msg, pubkey, tx, opp_tx, ok1, ok2)
           ELSE Ignore /\ UNCHANGED <<piece, move_pos>>
    /\ IF actor' = "panicked"
       THEN rx' = <<>> /\ conns' = NoConns
       ELSE rx' = Tail(rx) /\ conns' = conns
    /\ UNCHANGED <<socks, fwd, lobby_vars>>

Next ==
    \/ \E p \in Players : EnterGame(p)
    \/ \E c \in ConnIds, m \in ClientMsgs : BridgeRecv(c, m)
    \/ \E c \in ConnIds : BridgeReturn(c)
    \/ \E c \in ConnIds : BridgeExit(c)
    \/ \E ok \in BOOLEAN : RunPlayerConnected(ok)
    \/ \E ok1, ok2 \in BOOLEAN : RunGameMessage(ok1, ok2)

Spec == Init /\ [][Next]_vars

(***************************************************************************)
(* The scenario of two clients that each open one channel and send one     *)
(* Ready on it, under all interleavings of the two bridges and the actor.  *)
(***************************************************************************)
ReadyEnter(p) ==
    /\ \A c \in ConnIds : socks[c].pubkey # p
    /\ EnterGame(p)

ReadySend(c) ==
    /\ fwd[socks[c].pubkey] = 0
    /\ BridgeRecv(c, ReadyMsg)

NextReady ==
    \/ \E p \in Players : ReadyEnter(p)
    \/ \E c \in ConnIds : ReadySend(c)
    \/ \E ok \in BOOLEAN : RunPlayerConnected(ok)
    \/ \E ok1, ok2 \in BOOLEAN : RunGameMessage(ok1, ok2)

SpecReady == Init /\ [][NextReady]_vars

(***************************************************************************)
(* The adjudication on its own: the match stands where the turn player's   *)
(* Move has been accepted and the opponent's Whisper is the next command,  *)
(* for every attacking piece, every revealed piece and every choice of     *)
(* flag coordinates.                                                       *)
(***************************************************************************)
CmpFlags == {None, Some(1), Some(2)}

CmpMoves == {<<0, 1, 0, 2>>, <<1, 3, 1, 4>>}

PieceInfo(pc, fx, fy) == [piece |-> pc, flag_x |-> fx, flag_y |-> fy]

InitCmp ==
    \E a, t \in Piece, afx, afy, tfx, tfy \in CmpFlags, c \in CmpMoves :
        /\ LobbyInit
        /\ state = [p \in Players |-> "Connected"]
        /\ piece = [p \in Players |->
                       IF p = player1 THEN Some(PieceInfo(a, afx, afy))
                       ELSE None]
        /\ move_pos = [p \in Players |->
                          IF p = player1
                          THEN Some([x |-> c[1], y |-> c[2],
                                     target_x |-> c[3], target_y |-> c[4]])
                          ELSE None]
        /\ cur_player = player1
        /\ conns = [p \in Players |-> IF p = player1 THEN Some(1) ELSE Some(2)]
        /\ rx = <<[type |-> "GameMessage", pubkey |-> player2,
                   msg |-> [type |-> "Whisper", piece |-> t,
                            x |-> c[3], y |-> c[4],
                            flag_x |-> tfx, flag_y |-> tfy]]>>
        /\ actor = "running"
        /\ socks = <<[pubkey |-> player1, bridge |-> "running"],
                     [pubkey |-> player2, bridge |-> "running"]>>
        /\ fwd = [p \in Players |-> 1]
        /\ sent = <<>>
        /\ last = None
        /\ nStart = [p \in Players |-> 0]
        /\ winner = 0
        /\ hist = [roles |-> Players,
                   move |-> Some([pubkey |-> player1,
                                  msg |-> [type |-> "Move", piece |-> a,
                                           x |-> c[1], y |-> c[2],
                                           target_x |-> c[3],
                                           target_y |-> c[4],
                                           flag_x |-> afx, flag_y |-> afy]]),
                   whispers |-> 0]

NextCmp == \E ok1, ok2 \in BOOLEAN : RunGameMessage(ok1, ok2)

SpecCmp == InitCmp /\ [][NextCmp]_vars

(***************************************************************************)
(* The lobby (join / join_get / enter_game behind the RwLock of App).      *)
(* Every handler runs under the lock, so each is one step.  An actor that  *)
(* join spawns is followed here only as far as its channel: which bridges  *)
(* hold a sender of it and which command each step puts on it.             *)
(***************************************************************************)
User(access_code, game_id) == [access_code |-> access_code, game_id |-> game_id]

unwrap_or_default(o) == IF is_some(o) THEN unwrap(o) ELSE 0

usrs_of_waiting(access_code) ==
    {u \in Users : /\ is_some(user_map[u])
                   /\ unwrap(user_map[u]).access_code = access_code
                   /\ unwrap(user_map[u]).game_id = None}

\* user_map.values().filter(|u| u.access_code == access_code)
usrs_of(access_code) ==
    {u \in Users : /\ is_some(user_map[u])
                   /\ unwrap(user_map[u]).access_code = access_code}

JoinResult(game_id) == [status |-> 200, game_id |-> game_id]

ErrorResp(msg) == [status |-> 400, error |-> msg]

Answer(req, rsp) == Some([req |-> req, rsp |-> rsp])

\* no answer at all: the handler hit unreachable!()
Unreachable == [status |-> 0, error |-> "unreachable"]

join_full_swapped(usrs, pubkey) ==
    IF pubkey \notin usrs
    THEN ErrorResp("game started")
    ELSE ErrorResp("access code used")

\* the answer of join when two users already hold the access code
join_full(usrs, pubkey) ==
    IF pubkey \notin usrs
    THEN ErrorResp("access code used")
    ELSE ErrorResp("game started")

lobby_frame == <<state, piece, move_pos, cur_player, conns, rx, actor, socks,
                 fwd, sent, last, nStart, winner, hist>>

\* rnd is the value rand::random::<u64>() returns if it is called
join(pubkey, access_code, rnd) ==
    LET usrs == usrs_of(access_code)
        req == [op |-> "join", pubkey |-> pubkey, access_code |-> access_code]
    IN  /\ CASE Cardinality(usrs) = 2 ->
                   /\ resp' = Answer(req, join_full(usrs, pubkey))
                   /\ UNCHANGED <<user_map, game_map, chans>>
             [] Cardinality(usrs) = 1 ->
                   LET first == CHOOSE u \in usrs : TRUE
                       players == <<first, pubkey>>
                   IN  IF first = pubkey
                       THEN /\ user_map' =
                                  [user_map EXCEPT ![pubkey] =
                                      Some([unwrap(@) EXCEPT
                                               !.access_code = access_code])]
                            /\ resp' = Answer(req, JoinResult(0))
                            /\ UNCHANGED <<game_map, chans>>
                       ELSE /\ Len(chans) < MaxGames
                            /\ user_map' =
                                  [user_map EXCEPT
                                      ![pubkey] =
                                          Some(User(access_code, Some(rnd))),
                                      ![first] =
                                          Some([unwrap(@) EXCEPT
                                                   !.game_id = Some(rnd)])]
                            /\ chans' = Append(chans,
                                  [game_id |-> rnd, players |-> players,
                                   senders |-> {}])
                            /\ game_map' =
                                  [game_map EXCEPT ![rnd] =
                                      Some([players |-> players,
                                            tx |-> Len(chans) + 1])]
                            /\ resp' = Answer(req, JoinResult(rnd))
             [] Cardinality(usrs) = 0 ->
                   /\ user_map' = [user_map EXCEPT ![pubkey] =
                                      Some(User(access_code, None))]
                   /\ resp' = Answer(req, JoinResult(0))
                   /\ UNCHANGED <<game_map, chans>>
             [] OTHER ->
                   \* unreachable!(): the request task panics
                   /\ resp' = Answer(req, Unreachable)
                   /\ UNCHANGED <<user_map, game_map, chans>>
        /\ enq' = None
        /\ UNCHANGED lobby_frame

\* what join_get answers for pubkey in the current state
join_get_rsp(pubkey) ==
    IF is_some(user_map[pubkey])
    THEN JoinResult(unwrap_or_default(unwrap(user_map[pubkey]).game_id))
    ELSE ErrorResp("user not found")

join_get(pubkey) ==
    LET req == [op |-> "join_get", pubkey |-> pubkey]
    IN  /\ resp' = Answer(req, join_get_rsp(pubkey))
        /\ enq' = None
        /\ UNCHANGED <<user_map, game_map, chans, lobby_frame>>

\* the bridges that run: a player and the channel its bridge was given
Bridges ==
    {b \in Users \X (1..Len(chans)) : b[1] \in chans[b[2]].senders}

is_participant_any(game, player) == TRUE

is_participant(game, player) ==
    ~(game.players[1] # player /\ game.players[2] # player)

\* enter_game and, when it upgrades, the PlayerConnected that handle_socket
\* sends first on the channel it was given
enter_game(player, game_id) ==
    LET req == [op |-> "enter_game", player |-> player, game_id |-> game_id]
        game == game_map[game_id]
    IN  /\ IF is_some(game) /\ is_participant(unwrap(game), player)
           THEN LET game_tx == unwrap(game).tx
                IN  /\ Cardinality(Bridges) < MaxBridges
                    /\ chans' = [chans EXCEPT ![game_tx].senders =
                                    @ \cup {player}]
                    /\ enq' = Some([tx |-> game_tx,
                                    cmd |-> [type |-> "PlayerConnected",
                                             pubkey |-> player]])
                    /\ resp' = Answer(req, [status |-> 101])
           ELSE /\ resp' = Answer(req, [status |-> 400])
                /\ enq' = None
                /\ UNCHANGED chans
        /\ UNCHANGED <<user_map, game_map, lobby_frame>>

\* the bridge that player holds on channel game_tx forwards a decoded frame
handle_socket(player, game_tx, m) ==
    /\ player \in chans[game_tx].senders
    /\ enq' = Some([tx |-> game_tx,
                    cmd |-> [type |-> "GameMessage",
                             pubkey |-> player, msg |-> m]])
    /\ resp' = None
    /\ UNCHANGED <<user_map, game_map, chans, lobby_frame>>

\* the values rand::random::<u64>() may return to this join; it is called
\* only when the joiner is paired with the one other user of the code
rand_random(pubkey, access_code) ==
    IF usrs_of(access_code) \ {pubkey} # {} /\ Cardinality(usrs_of(access_code)) = 1
    THEN GameIds
    ELSE {0}

NextLobby ==
    \/ \E pubkey \in Users, access_code \in AccessCodes :
           \E rnd \in rand_random(pubkey, access_code) :
               join(pubkey, access_code, rnd)
    \/ \E pubkey \in Users : join_get(pubkey)
    \/ \E player \in Users, game_id \in GameIds : enter_game(player, game_id)
    \/ \E player \in Users, game_tx \in 1..Len(chans) :
           handle_socket(player, game_tx, ReadyMsg)

SpecLobby == Init /\ [][NextLobby]_vars

(***************************************************************************)
(* Properties.                                                             *)
(***************************************************************************)
\* the latest step was the actor handling a game message of this type from p
Handled(l, p, type) ==
    /\ l # None
    /\ unwrap(l).type = "GameMessage"
    /\ unwrap(l).pubkey = p
    /\ unwrap(l).msg.type = type

SentTypes(out) == {out[i].msg.type : i \in 1..Len(out)}

BothConnected == is_some(conns[player1]) /\ is_some(conns[player2])

\* C1: a Whisper from the non-turn player, handled while the turn player has
\* a pending piece and move, is adjudicated against that pending piece; the
\* one MoveResult goes to the sinks of both players, the mover's pending
\* piece and move are cleared and the whisperer becomes the turn player.
C1_WhisperAdjudicated ==
    [][\A p \in Players :
        (/\ Handled(last', p, "Whisper")
         /\ p # cur_player
         /\ is_some(piece[cur_player])
         /\ is_some(move_pos[cur_player]))
        => LET m == unwrap(last').msg
               pm == compare_piece(unwrap(piece[cur_player]),
                                   [piece |-> m.piece, flag_x |-> m.flag_x,
                                    flag_y |-> m.flag_y],
                                   unwrap(move_pos[cur_player]))
           IN  /\ Len(sent') = 2
               /\ sent'[1].msg = MoveResultMsg(pm)
               /\ sent'[2].msg = sent'[1].msg
               /\ sent'[1].conn = unwrap(conns[p])
               /\ sent'[2].conn = unwrap(conns[cur_player])
               /\ piece'[cur_player] = None
               /\ move_pos'[cur_player] = None
               /\ cur_player' = p]_vars

C1_Witness ==
    /\ \E p \in Players : Handled(last, p, "Whisper") /\ cur_player = p
    /\ Len(sent) = 2
    /\ sent[1].msg.type = "MoveResult"
    /\ sent[1].msg.piece_move.attack_result = Lose
    /\ piece = [p \in Players |-> None]

\* C2: whoever holds a pending piece or a pending move is the turn player,
\* so at most one player has a pending move.
C2_PendingIsTurn ==
    \A p \in Players :
        (is_some(piece[p]) \/ is_some(move_pos[p])) => p = cur_player

C2_Witness ==
    /\ cur_player = player2
    /\ is_some(piece[player2])
    /\ is_some(move_pos[player2])
    /\ actor = "running"

\* C3: a Whisper from the non-turn player, handled while the turn player has
\* no pending piece, is dropped: the match state is unchanged, nothing is
\* sent and the actor goes on running.
C3_WhisperWithoutPendingDropped ==
    [][\A p \in Players :
        (/\ Handled(last', p, "Whisper")
         /\ p # cur_player
         /\ ~is_some(piece[cur_player]))
        => /\ UNCHANGED <<state, piece, move_pos, cur_player>>
           /\ sent' = <<>>
           /\ actor' = "running"]_vars

\* C4: a Move from the non-turn player, or from the turn player who already
\* has a pending piece, has no effect: turn and both players' pending piece
\* and move are unchanged and nothing is sent.
C4_MoveRejected ==
    [][\A p \in Players :
        (/\ Handled(last', p, "Move")
         /\ (p # cur_player \/ is_some(piece[p])))
        => /\ UNCHANGED <<cur_player, piece, move_pos>>
           /\ sent' = <<>>]_vars

C4_Witness ==
    /\ Handled(last, cur_player, "Move")
    /\ is_some(piece[cur_player])
    /\ sent = <<>>
    /\ actor = "running"

\* C5: a Whisper from the turn player changes neither the turn nor any
\* pending piece or move and sends nothing, and a MoveResult is only ever
\* sent by a step that handles a Whisper from the non-turn player.
C5_WhisperOnlyFromNonTurn ==
    [][/\ \A p \in Players :
            (Handled(last', p, "Whisper") /\ p = cur_player)
            => /\ UNCHANGED <<state, piece, move_pos, cur_player, actor>>
               /\ sent' = <<>>
       /\ "MoveResult" \in SentTypes(sent')
            => \E p \in Players : Handled(last', p, "Whisper") /\ p # cur_player]_vars

C5_Witness ==
    /\ Handled(last, cur_player, "Whisper")
    /\ BothConnected
    /\ sent = <<>>
    /\ actor = "running"
    /\ is_some(piece[cur_player])

\* C6: a Move or a Whisper handled while some player is not Ready is not
\* acted upon: no pending piece or move is stored or taken, the turn stays
\* and neither PiecePos nor MoveResult is sent.
C6_MoveOnlyInPlay ==
    [][\A p \in Players :
        (/\ Handled(last', p, "Move") \/ Handled(last', p, "Whisper")
         /\ \E q \in Players : state[q] # "Ready")
        => /\ UNCHANGED <<piece, move_pos, cur_player>>
           /\ SentTypes(sent') \cap {"PiecePos", "MoveResult"} = {}]_vars

\* C7: once a MoveResult has carried a game_winner other than 0, no Move,
\* Whisper or Ready changes the player states, the pending pieces and moves
\* or the turn, and none has a PiecePos or MoveResult sent.
C7_NothingAfterWinner ==
    [][\A p \in Players :
        (/\ winner # 0
         /\ \E t \in {"Move", "Whisper", "Ready"} : Handled(last', p, t))
        => /\ UNCHANGED <<state, piece, move_pos, cur_player>>
           /\ SentTypes(sent') \cap {"PiecePos", "MoveResult"} = {}]_vars

\* C8: a PlayerConnected for a player whose state is not Disconnected puts
\* the new sink in that player's slot, leaves the rest of the match as it
\* is, and the actor goes on running.
C8_ReconnectReplacesSink ==
    [][\A p \in Players :
        (/\ last' # None
         /\ unwrap(last').type = "PlayerConnected"
         /\ socks[unwrap(last').conn].pubkey = p
         /\ state[p] # "Disconnected")
        => /\ conns'[p] = Some(unwrap(last').conn)
           /\ conns'[opponent(p)] = conns[opponent(p)]
           /\ UNCHANGED <<state, piece, move_pos, cur_player>>
           /\ actor' = "running"]_vars

\* C9: when the bridges of all of a player's sockets have returned and the
\* actor has consumed every command, that player's state is Disconnected.
C9_BridgeReturnDisconnects ==
    \A p \in Players :
        (/\ actor = "running"
         /\ rx = <<>>
         /\ \E c \in ConnIds : socks[c].pubkey = p
         /\ \A c \in ConnIds : socks[c].pubkey = p => socks[c].bridge = "returned")
        => state[p] = "Disconnected"

\* C10: when both players have opened their channel (each got its Role)
\* and sent their one Ready, and the actor has consumed every command, both
\* players are Ready and a GameStart has been sent to each.
C10_BothReadyAndStarted ==
    (/\ Len(socks) = 2
     /\ \A p \in Players : fwd[p] = 1
     /\ \A p \in Players : state[p] # "Disconnected"
     /\ rx = <<>>)
    => \A p \in Players : state[p] = "Ready" /\ nStart[p] >= 1

\* C11: within one match every Role is written by the step that handles a
\* connection's PlayerConnected, one per connection, and no player is ever
\* sent more than one GameStart, however many Ready messages are handled.
C11_OneRoleOneGameStart ==
    [][/\ \A p \in Players : nStart'[p] <= 1
       /\ \A i \in 1..Len(sent') :
             sent'[i].msg.type = "Role" =>
                 /\ Len(sent') = 1
                 /\ is_some(last')
                 /\ unwrap(last').type = "PlayerConnected"
                 /\ sent'[i].conn = unwrap(last').conn]_vars

\* C12: what the actor writes when it accepts a Move does not depend on the
\* piece or the flag fields of the Move: it is one PiecePos made of the four
\* coordinates of the Move and nothing else, written to the opponent's sink
\* and never to the mover's; and no write before the adjudication (Role,
\* GameStart, PiecePos) carries a piece.
C12_PiecePosHidesPiece ==
    [][/\ \A p \in Players :
            (/\ Handled(last', p, "Move")
             /\ BothConnected
             /\ p = cur_player
             /\ ~is_some(piece[p]))
            => LET m == unwrap(last').msg
               IN  /\ Len(sent') = 1
                   /\ sent'[1].conn = unwrap(conns[opponent(p)])
                   /\ sent'[1].to = opponent(p)
                   /\ DOMAIN sent'[1].msg =
                          {"type", "x", "y", "target_x", "target_y"}
                   /\ sent'[1].msg =
                          [type |-> "PiecePos", x |-> m.x, y |-> m.y,
                           target_x |-> m.target_x, target_y |-> m.target_y]
                   /\ \A pc \in Piece, fx, fy \in {None, Some(2)} :
                          sent'[1].msg =
                              PiecePosMsg([[m EXCEPT !.piece = pc,
                                              !.flag_x = fx, !.flag_y = fy]
                                           EXCEPT !.type = "MovePos"])
       /\ \A i \in 1..Len(sent') :
             sent'[i].msg.type # "MoveResult"
             => \A f \in DOMAIN sent'[i].msg :
                    f \notin {"piece", "flag_x", "flag_y"}]_vars

\* an accepted Move that carries the FieldMarshal and its flag coordinates
C12_Witness ==
    /\ Handled(last, player1, "Move")
    /\ unwrap(last).msg.piece = FieldMarshal
    /\ is_some(unwrap(last).msg.flag_x)
    /\ is_some(piece[player1])
    /\ Len(sent) = 1
    /\ sent[1].msg.type = "PiecePos"
    /\ sent[1].to = player2

\* the step handles a Whisper of p that the adjudicator decides
Adjudicates(l, p) ==
    /\ Handled(l, p, "Whisper")
    /\ BothConnected
    /\ p # cur_player
    /\ is_some(piece[opponent(p)])
    /\ is_some(move_pos[opponent(p)])

\* C13: the attack result is the one of the first matching clause, in this
\* order: defender Empty gives SimpleMove; a Bomb on either side gives Draw;
\* a defending Landmine gives Win to an Engineer and Lose to anything else;
\* an attacker above the defender gives Win; equal pieces give Draw; anything
\* else gives Lose.  SimpleMove is returned exactly when the defender is Empty.
C13_ResultByFirstClause ==
    [][\A p \in Players :
          Adjudicates(last', p) =>
             LET a == unwrap(piece[opponent(p)]).piece
                 t == unwrap(last').msg.piece
                 r == sent'[1].msg.piece_move.attack_result
                 c1 == t = Empty
                 c2 == a = Bomb \/ t = Bomb
                 c3 == t = Landmine
             IN  /\ sent'[1].msg.type = "MoveResult"
                 /\ c1 => r = SimpleMove
                 /\ (~c1 /\ c2) => r = Draw
                 /\ (~c1 /\ ~c2 /\ c3 /\ a = Engineer) => r = Win
                 /\ (~c1 /\ ~c2 /\ c3 /\ a # Engineer) => r = Lose
                 /\ (~c1 /\ ~c2 /\ ~c3 /\ a > t) => r = Win
                 /\ (~c1 /\ ~c2 /\ ~c3 /\ a = t) => r = Draw
                 /\ (~c1 /\ ~c2 /\ ~c3 /\ a < t) => r = Lose
                 /\ (r = SimpleMove) <=> (t = Empty)]_vars

\* a Landmine revealed to an attacker that wins (the Engineer), reported
C13_Witness ==
    /\ Handled(last, player2, "Whisper")
    /\ unwrap(last).msg.piece = Landmine
    /\ Len(sent) = 2
    /\ sent[1].msg.type = "MoveResult"
    /\ sent[1].msg.piece_move.attack_result = Win

\* C14: game_winner is 2 exactly when the attacker's piece is the Flag and
\* the attacker dies (Draw or Lose); otherwise it is 1 exactly when the
\* defender's piece is the Flag and the defender dies (Win or Draw);
\* otherwise it is 0.  Flag against Flag is a Draw and gives 2.
C14_GameWinner ==
    [][\A p \in Players :
          Adjudicates(last', p) =>
             LET a == unwrap(piece[opponent(p)]).piece
                 t == unwrap(last').msg.piece
                 pm == sent'[1].msg.piece_move
                 r == pm.attack_result
                 attacker_flag_dies == a = Flag /\ r \in {Draw, Lose}
                 defender_flag_dies == t = Flag /\ r \in {Win, Draw}
             IN  /\ pm.game_winner \in {0, 1, 2}
                 /\ (pm.game_winner = 2) <=> attacker_flag_dies
                 /\ (pm.game_winner = 1) <=>
                        (~attacker_flag_dies /\ defender_flag_dies)
                 /\ (a = Flag /\ t = Flag) =>
                        (r = Draw /\ pm.game_winner = 2)]_vars

\* Flag against Flag: a Draw that the defender wins
C14_Witness ==
    /\ Handled(last, player2, "Whisper")
    /\ unwrap(last).msg.piece = Flag
    /\ Len(sent) = 2
    /\ sent[1].msg.type = "MoveResult"
    /\ sent[1].msg.piece_move.attack_result = Draw
    /\ sent[1].msg.piece_move.game_winner = 2

\* C15: flag_x and flag_y of the result are the flag coordinates the mover
\* supplied when the attacker's piece is the FieldMarshal and the attacker
\* dies (Draw or Lose) and absent otherwise; opp_flag_x and opp_flag_y are
\* the ones the whisperer supplied when the defender's piece is the
\* FieldMarshal and the defender dies (Win or Draw) and absent otherwise;
\* all four are absent on a SimpleMove.
C15_FlagReveal ==
    [][\A p \in Players :
          Adjudicates(last', p) =>
             LET att == unwrap(piece[opponent(p)])
                 tgt == unwrap(last').msg
                 pm == sent'[1].msg.piece_move
                 r == pm.attack_result
                 attacker_fm_dies ==
                     att.piece = FieldMarshal /\ r \in {Draw, Lose}
                 defender_fm_dies ==
                     tgt.piece = FieldMarshal /\ r \in {Win, Draw}
             IN  /\ pm.flag_x = IF attacker_fm_dies THEN att.flag_x ELSE None
                 /\ pm.flag_y = IF attacker_fm_dies THEN att.flag_y ELSE None
                 /\ pm.opp_flag_x =
                        IF defender_fm_dies THEN tgt.flag_x ELSE None
                 /\ pm.opp_flag_y =
                        IF defender_fm_dies THEN tgt.flag_y ELSE None
                 /\ r = SimpleMove =>
                        /\ pm.flag_x = None /\ pm.flag_y = None
                        /\ pm.opp_flag_x = None /\ pm.opp_flag_y = None]_vars

\* FieldMarshal against FieldMarshal: both die and both flags are revealed,
\* each with its own different coordinates
C15_Witness ==
    /\ Handled(last, player2, "Whisper")
    /\ unwrap(last).msg.piece = FieldMarshal
    /\ unwrap(last).msg.flag_x = Some(2)
    /\ unwrap(last).msg.flag_y = Some(1)
    /\ Len(sent) = 2
    /\ sent[1].msg.type = "MoveResult"
    /\ sent[1].msg.piece_move.attack_result = Draw
    /\ sent[1].msg.piece_move.flag_x = Some(1)
    /\ sent[1].msg.piece_move.flag_y = Some(2)
    /\ sent[1].msg.piece_move.opp_flag_x = Some(2)
    /\ sent[1].msg.piece_move.opp_flag_y = Some(1)

\* the latest step answered the request req
Answered(r, req) == r # None /\ unwrap(r).req = req

JoinReq(pubkey, access_code) ==
    [op |-> "join", pubkey |-> pubkey, access_code |-> access_code]

\* C16: a Join with an access code nobody holds is answered game_id 0; a
\* Join of another player with the access code that one waiting user holds
\* is answered a game_id R that is not 0, records R for both users (the
\* waiting one back-filled) so that JoinGet answers R for either, and
\* registers under R in the game map the match of exactly these two players,
\* the waiting one as Player1, with its actor spawned.
C16_PairingOnSecondJoin ==
    [][\A p \in Users, c \in AccessCodes :
          Answered(resp', JoinReq(p, c)) =>
             LET rsp == unwrap(resp').rsp
             IN  /\ usrs_of(c) = {} => rsp = JoinResult(0)
                 /\ \A u0 \in Users \ {p} :
                       (usrs_of(c) = {u0} /\ unwrap(user_map[u0]).game_id = None)
                       => LET R == rsp.game_id
                          IN  /\ rsp.status = 200
                              /\ R # 0
                              /\ unwrap(user_map'[p]).game_id = Some(R)
                              /\ unwrap(user_map'[u0]).game_id = Some(R)
                              /\ join_get_rsp(p)' = JoinResult(R)
                              /\ join_get_rsp(u0)' = JoinResult(R)
                              /\ is_some(game_map'[R])
                              /\ unwrap(game_map'[R]).players = <<u0, p>>
                              /\ LET a == chans'[unwrap(game_map'[R]).tx]
                                 IN  /\ a.game_id = R
                                     /\ a.players = <<u0, p>>
                                     /\ Len(chans') = Len(chans) + 1]_vars

\* C17: the id join mints for a new match differs from the id of every
\* match already in the game map, so creating a match leaves every existing
\* game-map entry as it was.
C17_MintedIdFresh ==
    [][(Len(chans') = Len(chans) + 1) =>
          LET R == chans'[Len(chans')].game_id
          IN  /\ ~is_some(game_map[R])
              /\ \A g \in GameIds :
                    is_some(game_map[g]) => game_map'[g] = game_map[g]]_vars

EnterReq(player, game_id) ==
    [op |-> "enter_game", player |-> player, game_id |-> game_id]

\* C18: enter_game upgrades, and its bridge puts PlayerConnected on the
\* channel of a match, only when game_id is in the game map and the player
\* is one of the two players of that entry; otherwise it answers 400 and
\* nothing is put on any channel.  So every command put on a channel comes
\* from a player of the actor behind it, only participants hold a channel,
\* and a step on one channel leaves every other match as it was.
C18_OnlyParticipantsEnter ==
    [][/\ \A player \in Users, game_id \in GameIds :
             Answered(resp', EnterReq(player, game_id)) =>
                LET game == game_map[game_id]
                    allowed ==
                        /\ is_some(game)
                        /\ player \in {unwrap(game).players[1],
                                       unwrap(game).players[2]}
                    rsp == unwrap(resp').rsp
                IN  /\ allowed =>
                          /\ rsp.status = 101
                          /\ enq' = Some([tx |-> unwrap(game).tx,
                                          cmd |-> [type |-> "PlayerConnected",
                                                   pubkey |-> player]])
                          /\ chans[unwrap(game).tx].game_id = game_id
                    /\ ~allowed =>
                          /\ rsp.status = 400
                          /\ enq' = None
                          /\ chans' = chans
       /\ is_some(enq') =>
             LET e == unwrap(enq')
             IN  /\ e.cmd.pubkey \in {chans[e.tx].players[1],
                                      chans[e.tx].players[2]}
                 /\ \A j \in 1..Len(chans) : j # e.tx => chans'[j] = chans[j]
       /\ \A b \in Bridges' :
             b[1] \in {chans'[b[2]].players[1], chans'[b[2]].players[2]}]_vars

\* with two matches in the map, a player of one is refused at the other,
\* while a bridge of a participant runs
C18_Witness ==
    /\ \E player \in Users, g1, g2 \in GameIds :
          /\ g1 # g2
          /\ is_some(game_map[g1])
          /\ is_some(game_map[g2])
          /\ Answered(resp, EnterReq(player, g1))
          /\ unwrap(resp).rsp.status = 400
          /\ player \in {unwrap(game_map[g2]).players[1],
                         unwrap(game_map[g2]).players[2]}
    /\ Bridges # {}

\* C19 as claimed: a Join with an access code that two users hold changes
\* neither map and is answered 409 "game started" when the caller is one of
\* the two, 400 "access code used" otherwise.
C19_FullCode409 ==
    [][\A p \in Users, c \in AccessCodes :
          (Answered(resp', JoinReq(p, c)) /\ Cardinality(usrs_of(c)) = 2) =>
             /\ user_map' = user_map
             /\ game_map' = game_map
             /\ unwrap(resp').rsp =
                   IF p \in usrs_of(c)
                   THEN [status |-> 409, error |-> "game started"]
                   ELSE [status |-> 400, error |-> "access code used"]]_vars

\* C19, amended: a Join with an access code that two users hold changes
\* neither map, spawns nothing, and is answered with status 400 in both
\* cases: error "game started" when the caller is one of the two users,
\* error "access code used" otherwise.
C19_FullCode400 ==
    [][\A p \in Users, c \in AccessCodes :
          (Answered(resp', JoinReq(p, c)) /\ Cardinality(usrs_of(c)) = 2) =>
             /\ user_map' = user_map
             /\ game_map' = game_map
             /\ chans' = chans
             /\ unwrap(resp').rsp =
                   IF p \in usrs_of(c)
                   THEN [status |-> 400, error |-> "game started"]
                   ELSE [status |-> 400, error |-> "access code used"]]_vars

\* one of the two users of a full access code has joined it again
C19_Witness ==
    \E p \in Users, c \in AccessCodes :
        /\ Answered(resp, JoinReq(p, c))
        /\ Cardinality(usrs_of(c)) = 2
        /\ p \in usrs_of(c)
        /\ unwrap(resp).rsp = [status |-> 400, error |-> "game started"]

\* C20: in every reachable state of the actor, each player's pending piece
\* is present exactly when that player's pending move is present.
C20_PieceIffMove ==
    \A p \in Players : is_some(piece[p]) <=> is_some(move_pos[p])

\* a Move was stored and the Whisper that answered it has taken both again
C20_Witness ==
    /\ Handled(last, player2, "Whisper")
    /\ "MoveResult" \in SentTypes(sent)
    /\ cur_player = player2
    /\ piece[player1] = None
    /\ move_pos[player1] = None

\* C21: accepted Moves alternate.  The first accepted Move of the match is
\* Player1's; an accepted Move that follows another comes from the other
\* player, with exactly one adjudicated Whisper since; and a Whisper is
\* adjudicated only as the first one after an accepted Move, sent by the
\* player who did not make that Move.  (A Move is accepted when its PiecePos
\* is written, a Whisper adjudicated when its MoveResult is written.)
C21_MovesAlternate ==
    [][\A p \in Players :
          /\ (Handled(last', p, "Move") /\ "PiecePos" \in SentTypes(sent')) =>
                /\ hist.move = None => p = player1
                /\ is_some(hist.move) =>
                      /\ unwrap(hist.move).pubkey = opponent(p)
                      /\ hist.whispers = 1
          /\ (Handled(last', p, "Whisper")
                 /\ "MoveResult" \in SentTypes(sent')) =>
                /\ is_some(hist.move)
                /\ unwrap(hist.move).pubkey = opponent(p)
                /\ hist.whispers = 0]_vars

\* Player2's Move accepted after Player1's Move and the Whisper on it
C21_Witness ==
    /\ Handled(last, player2, "Move")
    /\ is_some(hist.move)
    /\ unwrap(hist.move).pubkey = player2
    /\ hist.whispers = 0
    /\ is_some(piece[player2])
    /\ cur_player = player2

\* C22: every GameStart is written to a player to whom a Role was written
\* before, is written only when both players are Ready, and is then written
\* to both players.
C22_GameStartAfterRole ==
    [][\A i \in 1..Len(sent') :
          sent'[i].msg.type = "GameStart" =>
             /\ sent'[i].to \in hist.roles
             /\ \A p \in Players : state'[p] = "Ready"
             /\ {sent'[j].to : j \in {k \in 1..Len(sent') :
                                        sent'[k].msg.type = "GameStart"}}
                   = Players]_vars

\* the Ready that completes the pair: GameStart written to both, Roles before
C22_Witness ==
    /\ \E p \in Players : Handled(last, p, "Ready")
    /\ Len(sent) = 2
    /\ \A i \in 1..2 : sent[i].msg.type = "GameStart"
    /\ sent[1].to # sent[2].to
    /\ hist.roles = Players
    /\ \A p \in Players : state[p] = "Ready"

\* C23: a write to a player's sink that fails (of a Role, a GameStart, a
\* PiecePos or a MoveResult) does not end the actor: after the step the actor
\* runs and still holds the rest of its queue, so it takes the next command.
C23_SendFailureNotFatal ==
    [][(\E i \in 1..Len(sent') : ~sent'[i].ok) =>
          /\ actor' = "running"
          /\ rx' = Tail(rx)]_vars

\* Player1's second socket is taken in after the Role for its first socket
\* could not be written: the actor consumed the next PlayerConnected
C23_Witness ==
    /\ actor = "running"
    /\ Len(socks) = 2
    /\ socks[1].pubkey = player1
    /\ socks[2].pubkey = player1
    /\ last = Some([type |-> "PlayerConnected", conn |-> 2])
    /\ Len(sent) = 1
    /\ sent[1].msg.type = "Role"
    /\ sent[1].ok
    /\ conns[player1] = Some(2)
    /\ state[player1] = "Connected"

\* the two players of the match registered under game id g
players_of(g) == {unwrap(game_map[g]).players[1], unwrap(game_map[g]).players[2]}

\* C24: no player takes part in two different matches of the game map, and
\* every player of a match in the game map has the id of that match as its
\* assigned game id, which is what JoinGet answers for it.
C24_OneMatchPerPlayer ==
    /\ \A g1, g2 \in GameIds :
          (g1 # g2 /\ is_some(game_map[g1]) /\ is_some(game_map[g2]))
          => players_of(g1) \cap players_of(g2) = {}
    /\ \A g \in GameIds :
          is_some(game_map[g]) =>
             \A u \in players_of(g) :
                /\ is_some(user_map[u])
                /\ unwrap(user_map[u]).game_id = Some(g)
                /\ join_get_rsp(u) = JoinResult(g)

\* C25: no access code is held by more than two users of the user map, and
\* join never reaches the unreachable default branch of its match on the
\* number of users found.
C25_AtMostTwoPerCode ==
    /\ \A c \in AccessCodes :
          Cardinality({u \in Users :
                          /\ user_map[u] # None
                          /\ user_map[u][1].access_code = c}) <= 2
    /\ resp # None => resp[1].rsp # Unreachable

\* all three users are registered, two hold one access code, and the Join of
\* the third with that code, coming from another code, has been refused
C25_Witness ==
    \E p \in Users, c \in AccessCodes :
        /\ \A u \in Users : is_some(user_map[u])
        /\ Cardinality({u \in Users : unwrap(user_map[u]).access_code = c}) = 2
        /\ unwrap(user_map[p]).access_code # c
        /\ Answered(resp, JoinReq(p, c))
        /\ unwrap(resp).rsp = ErrorResp("access code used")

\* C26: the MoveResult of an adjudicated Whisper carries the x, y, target_x
\* and target_y of the most recent accepted Move, which is the opponent's
\* and has not been adjudicated before, and its outcome is the one of the
\* piece and flag coordinates of that Move against the Whisper's; the
\* PiecePos forwarded when a Move is accepted carries that Move's coordinates.
C26_ResultOfPendingMove ==
    [][/\ \A p \in Players :
             Adjudicates(last', p) =>
                /\ hist.move # None
                /\ hist.move[1].pubkey = opponent(p)
                /\ hist.whispers = 0
                /\ LET m == hist.move[1].msg
                       w == last'[1].msg
                       res == attack_result_of(m.piece, w.piece)
                   IN  \A i \in 1..Len(sent') :
                          /\ sent'[i].msg.type = "MoveResult"
                          /\ LET pm == sent'[i].msg.piece_move
                             IN  /\ pm.x = m.x
                                 /\ pm.y = m.y
                                 /\ pm.target_x = m.target_x
                                 /\ pm.target_y = m.target_y
                                 /\ pm.attack_result = res
                                 /\ pm.game_winner =
                                       game_winner_of(victim_of(res, m.piece),
                                                      opp_victim_of(res, w.piece))
                                 /\ pm.flag_x \in {None, m.flag_x}
                                 /\ pm.flag_y \in {None, m.flag_y}
                                 /\ pm.opp_flag_x \in {None, w.flag_x}
                                 /\ pm.opp_flag_y \in {None, w.flag_y}
       /\ \A p \in Players :
             (Handled(last', p, "Move") /\ "PiecePos" \in SentTypes(sent')) =>
                LET m == last'[1].msg
                IN  /\ hist'.move = Some([pubkey |-> p, msg |-> m])
                    /\ \A i \in 1..Len(sent') :
                          /\ sent'[i].msg.x = m.x
                          /\ sent'[i].msg.y = m.y
                          /\ sent'[i].msg.target_x = m.target_x
                          /\ sent'[i].msg.target_y = m.target_y]_vars

\* Player2's Whisper has been adjudicated against the Field Marshal that
\* Player1 moved from (1, 3) to (1, 4), and the MoveResult says so
C26_Witness ==
    /\ Handled(last, player2, "Whisper")
    /\ hist.whispers = 1
    /\ hist.move = Some([pubkey |-> player1,
                         msg |-> MoveMsg(FieldMarshal, <<1, 3, 1, 4>>)])
    /\ Len(sent) = 2
    /\ sent[1].msg.type = "MoveResult"
    /\ sent[1].msg.piece_move.x = 1
    /\ sent[1].msg.piece_move.y = 3
    /\ sent[1].msg.piece_move.target_x = 1
    /\ sent[1].msg.piece_move.target_y = 4

====
